---------------------------- MODULE Spec2Model ----------------------------
(***************************************************************************)
(* A model of the terminal styling engine (crayon.rs: Color, Style,       *)
(* StyledString and its Display implementation) and of the screen-size    *)
(* query (screen/unix.rs, screen/windows.rs).                             *)
(*                                                                         *)
(* Text is modelled as a sequence of byte values, so that the escape       *)
(* sequences the code writes can be compared byte for byte.  A            *)
(* fmt::Formatter is modelled as the record of what its destination has    *)
(* received, how many write calls were made to it, and which call (if any) *)
(* the destination fails.                                                  *)
(***************************************************************************)
EXTENDS Integers, Sequences, FiniteSets, TLC

VARIABLES
    pc,         \* position of the styling program: start, build, painted, rendered
    style,      \* the Style just produced (build) / StyledString.style (painted on)
    receiver,   \* the Style the last method was called on, as it is after the call
    call,       \* the last method called: [m |-> name, c |-> Color self, arg |-> Color argument]
    string,     \* StyledString.string
    f,          \* the fmt::Formatter handed to Display::fmt
    result,     \* what Display::fmt returned: "Ok" / "Err" ("none" before it ran)
    color,      \* the Color whose code is rendered (code-table program)
    code,       \* the Formatter the colour code was written into, and the result
    term,       \* the terminal as the operating system reports it
    screen      \* the last screen-size query and what it returned

vars == <<pc, style, receiver, call, string, f, result, color, code, term, screen>>

---------------------------------------------------------------------------
(* Bounds of the model.                                                    *)

\* Longest text painted.
MaxLen == 1

\* The destination may fail write call number 1..MaxFailAt (0: it never fails).
MaxFailAt == 31

\* Largest number of columns / rows the terminal reports.
MaxDim == 3

---------------------------------------------------------------------------
(* Bytes.                                                                  *)

ESC == 27
LBRACKET == 91
SEMICOLON == 59
LOWER_M == 109
ZERO == 48
U8_MAX == 255
U16_MOD == 65536

\* The bytes texts are made of: the escape byte and the separator, which
\* the renderer must pass through untouched.
TextBytes == {ESC, SEMICOLON}

RECURSIVE SeqsUpTo(_, _)
SeqsUpTo(S, n) ==
    IF n = 0 THEN {<<>>}
    ELSE LET shorter == SeqsUpTo(S, n - 1)
         IN  shorter \cup {Append(s, b) : s \in shorter, b \in S}

Texts == SeqsUpTo(TextBytes, MaxLen)

---------------------------------------------------------------------------
(* Color (crayon.rs, enum Color).                                          *)

NamedTags == <<"Black", "Red", "Green", "Yellow", "Blue", "Purple", "Cyan", "White">>

Named(t) == [tag |-> t]
Fixed(n) == [tag |-> "Fixed", n |-> n]
Rgb(r, g, b) == [tag |-> "Rgb", r |-> r, g |-> g, b |-> b]

\* Option<Color>::None; Some(c) is c itself.
None == [tag |-> "None"]

NamedColors == {Named(NamedTags[i]) : i \in 1..Len(NamedTags)}

\* Byte values around every change in the number of decimal digits.
ByteSample == {0, 9, 10, 99, 100, U8_MAX}

\* Every colour of the code-table program: all named colours, every
\* palette index, and the Rgb triples over ByteSample.
AllColors ==
    NamedColors \cup {Fixed(n) : n \in 0..U8_MAX}
                \cup {Rgb(r, g, b) : r \in ByteSample, g \in ByteSample, b \in ByteSample}

\* The colours the styling program draws from: one of each variant.
Colors == {Named("Green"), Fixed(5), Rgb(0, 48, 255)}

---------------------------------------------------------------------------
(* Style (crayon.rs, struct Style and impl Default).                       *)

Attrs == <<"bold", "dimmed", "italic", "underline", "blink", "reverse", "hidden">>

Style_default ==
    [foreground |-> None, background |-> None,
     bold |-> FALSE, dimmed |-> FALSE, italic |-> FALSE, underline |-> FALSE,
     blink |-> FALSE, reverse |-> FALSE, hidden |-> FALSE]

Style_new == Style_default

Style_foreground(self, c) == [self EXCEPT !.foreground = c]

\* background() filling the other fields from Style::default() instead of *self.
Style_background_fresh(self, c) == [Style_default EXCEPT !.background = c]

Style_background(self, c) == [self EXCEPT !.background = c]

\* bold() overriding the wrong field.
Style_bold_wrong_field(self) == [self EXCEPT !.dimmed = TRUE]

Style_bold(self) == [self EXCEPT !.bold = TRUE]

Style_dimmed(self) == [self EXCEPT !.dimmed = TRUE]

\* italic() switching the attribute instead of setting it.
Style_italic_toggle(self) == [self EXCEPT !.italic = ~@]

Style_italic(self) == [self EXCEPT !.italic = TRUE]

Style_underline(self) == [self EXCEPT !.underline = TRUE]

Style_blink(self) == [self EXCEPT !.blink = TRUE]

Style_reverse(self) == [self EXCEPT !.reverse = TRUE]

Style_hidden(self) == [self EXCEPT !.hidden = TRUE]

\* The attribute setter of the given name.
Style_attr(self, a) ==
    CASE a = "bold" -> Style_bold(self)
      [] a = "dimmed" -> Style_dimmed(self)
      [] a = "italic" -> Style_italic(self)
      [] a = "underline" -> Style_underline(self)
      [] a = "blink" -> Style_blink(self)
      [] a = "reverse" -> Style_reverse(self)
      [] a = "hidden" -> Style_hidden(self)

\* Style::paint: the StyledString of a text and this Style.
Style_paint(self, text) == [string |-> text, style |-> self]

\* from() with a Style that sets a foreground colour.
StyledString_from_white(text) ==
    [string |-> text, style |-> [Style_default EXCEPT !.foreground = Named("White")]]

\* impl From<S> for StyledString
StyledString_from(text) == [string |-> text, style |-> Style_default]

is_plain(self) == self = Style_default

---------------------------------------------------------------------------
(* Color's convenience constructors (crayon.rs, impl Color).               *)

Color_normal(self) == [Style_default EXCEPT !.foreground = self]

\* on() with its two colours exchanged.
Color_on_swapped(self, background) ==
    [Style_default EXCEPT !.foreground = background, !.background = self]

Color_on(self, background) ==
    [Style_default EXCEPT !.foreground = self, !.background = background]

Color_paint(self, text) == [string |-> text, style |-> Color_normal(self)]

Color_bold(self) == [Style_default EXCEPT !.foreground = self, !.bold = TRUE]

Color_dimmed(self) == [Style_default EXCEPT !.foreground = self, !.dimmed = TRUE]

Color_italic(self) == [Style_default EXCEPT !.foreground = self, !.italic = TRUE]

Color_underline(self) == [Style_default EXCEPT !.foreground = self, !.underline = TRUE]

Color_blink(self) == [Style_default EXCEPT !.foreground = self, !.blink = TRUE]

Color_reverse(self) == [Style_default EXCEPT !.foreground = self, !.reverse = TRUE]

Color_hidden(self) == [Style_default EXCEPT !.foreground = self, !.hidden = TRUE]

Color_attr(self, a) ==
    CASE a = "bold" -> Color_bold(self)
      [] a = "dimmed" -> Color_dimmed(self)
      [] a = "italic" -> Color_italic(self)
      [] a = "underline" -> Color_underline(self)
      [] a = "blink" -> Color_blink(self)
      [] a = "reverse" -> Color_reverse(self)
      [] a = "hidden" -> Color_hidden(self)

---------------------------------------------------------------------------
(* fmt::Formatter and the destination behind it.                           *)
(*                                                                         *)
(* out: the bytes the destination accepted; calls: the write calls made    *)
(* to it; failAt: the call the destination fails (0: none); failed: some   *)
(* call returned an error; late: a call was made after a failed one.  A    *)
(* failed call delivers nothing, and the calls after it succeed again, so  *)
(* an error that is dropped does not show up again by itself.              *)

NewFormatter(failAt) ==
    [out |-> <<>>, calls |-> 0, failAt |-> failAt, failed |-> FALSE, late |-> FALSE]

Ok(fm) == [f |-> fm, res |-> "Ok"]

\* fmt::Write::write_str on the destination.
write_str(fm, s) ==
    LET n == fm.calls + 1
        seen == [fm EXCEPT !.calls = n, !.late = fm.late \/ fm.failed]
    IN  IF n = fm.failAt
        THEN [f |-> [seen EXCEPT !.failed = TRUE], res |-> "Err"]
        ELSE [f |-> [seen EXCEPT !.out = @ \o s], res |-> "Ok"]

\* Formatter::write_char: one write of the one-byte string.
write_char(fm, c) == write_str(fm, <<c>>)

\* write!(f, ...): the literal pieces and the formatted arguments are
\* written one after the other, stopping at the first error.
RECURSIVE write_fmt(_, _)
write_fmt(fm, pieces) ==
    IF pieces = <<>> THEN Ok(fm)
    ELSE LET r == write_str(fm, Head(pieces))
         IN  IF r.res = "Err" THEN r ELSE write_fmt(r.f, Tail(pieces))

\* "{}" of a u8: its decimal digits, most significant first.
RECURSIVE ToDec(_)
ToDec(n) ==
    IF n < 10 THEN <<ZERO + n>>
    ELSE Append(ToDec(n \div 10), ZERO + (n % 10))

\* The last digit of a named colour's code: Black 0 ... White 7.
NamedNumber ==
    [Black |-> 0, Red |-> 1, Green |-> 2, Yellow |-> 3,
     Blue |-> 4, Purple |-> 5, Cyan |-> 6, White |-> 7]

\* The two-digit literal "ab".
Lit2(a, b) == <<ZERO + a, ZERO + b>>

write_foreground_code(self, fm) ==
    CASE self.tag = "Black" -> write_fmt(fm, <<Lit2(3, 0)>>)
      [] self.tag = "Red" -> write_fmt(fm, <<Lit2(3, 1)>>)
      [] self.tag = "Green" -> write_fmt(fm, <<Lit2(3, 2)>>)
      [] self.tag = "Yellow" -> write_fmt(fm, <<Lit2(3, 3)>>)
      [] self.tag = "Blue" -> write_fmt(fm, <<Lit2(3, 4)>>)
      [] self.tag = "Purple" -> write_fmt(fm, <<Lit2(3, 5)>>)
      [] self.tag = "Cyan" -> write_fmt(fm, <<Lit2(3, 6)>>)
      [] self.tag = "White" -> write_fmt(fm, <<Lit2(3, 7)>>)
      [] self.tag = "Fixed" ->
            write_fmt(fm, <<Lit2(3, 8) \o <<SEMICOLON, ZERO + 5, SEMICOLON>>, ToDec(self.n)>>)
      [] self.tag = "Rgb" ->
            write_fmt(fm, <<Lit2(3, 8) \o <<SEMICOLON, ZERO + 2, SEMICOLON>>, ToDec(self.r),
                            <<SEMICOLON>>, ToDec(self.g), <<SEMICOLON>>, ToDec(self.b)>>)

\* write_background_code with the Fixed arm copied from the foreground table.
write_background_code_fixed38(self, fm) ==
    IF self.tag = "Fixed"
    THEN write_fmt(fm, <<Lit2(3, 8) \o <<SEMICOLON, ZERO + 5, SEMICOLON>>, ToDec(self.n)>>)
    ELSE IF self.tag = "Rgb"
    THEN write_fmt(fm, <<Lit2(4, 8) \o <<SEMICOLON, ZERO + 2, SEMICOLON>>, ToDec(self.r),
                         <<SEMICOLON>>, ToDec(self.g), <<SEMICOLON>>, ToDec(self.b)>>)
    ELSE write_fmt(fm, <<Lit2(4, NamedNumber[self.tag])>>)

write_background_code(self, fm) ==
    CASE self.tag = "Black" -> write_fmt(fm, <<Lit2(4, 0)>>)
      [] self.tag = "Red" -> write_fmt(fm, <<Lit2(4, 1)>>)
      [] self.tag = "Green" -> write_fmt(fm, <<Lit2(4, 2)>>)
      [] self.tag = "Yellow" -> write_fmt(fm, <<Lit2(4, 3)>>)
      [] self.tag = "Blue" -> write_fmt(fm, <<Lit2(4, 4)>>)
      [] self.tag = "Purple" -> write_fmt(fm, <<Lit2(4, 5)>>)
      [] self.tag = "Cyan" -> write_fmt(fm, <<Lit2(4, 6)>>)
      [] self.tag = "White" -> write_fmt(fm, <<Lit2(4, 7)>>)
      [] self.tag = "Fixed" ->
            write_fmt(fm, <<Lit2(4, 8) \o <<SEMICOLON, ZERO + 5, SEMICOLON>>, ToDec(self.n)>>)
      [] self.tag = "Rgb" ->
            write_fmt(fm, <<Lit2(4, 8) \o <<SEMICOLON, ZERO + 2, SEMICOLON>>, ToDec(self.r),
                            <<SEMICOLON>>, ToDec(self.g), <<SEMICOLON>>, ToDec(self.b)>>)

---------------------------------------------------------------------------
(* Style::write_prefix and Style::write_suffix.                            *)
(*                                                                         *)
(* The body of write_prefix runs over a record st: the formatter, the      *)
(* local written_anything, and res, which is "Err" once a try! has         *)
(* returned early; every later step then leaves st as it is.               *)

\* The closure write_char of write_prefix.
write_char_closure(st, c) ==
    LET r1 == IF st.written_anything THEN write_char(st.f, SEMICOLON) ELSE Ok(st.f)
    IN  IF r1.res = "Err"
        THEN [st EXCEPT !.f = r1.f, !.res = "Err"]
        ELSE LET r2 == write_char(r1.f, c)
             IN  [f |-> r2.f, written_anything |-> TRUE, res |-> r2.res]

\* if self.<attr> { try!(write_char(c)); }
write_attr(st, set, c) ==
    IF st.res = "Err" \/ ~set THEN st ELSE write_char_closure(st, c)

\* The attribute tests with 7, the usual SGR number of reverse video,
\* written for reverse as well as for hidden.
write_prefix_attrs_reverse7(self, st) ==
    LET a1 == write_attr(st, self.bold, ZERO + 1)
        a2 == write_attr(a1, self.dimmed, ZERO + 2)
        a3 == write_attr(a2, self.italic, ZERO + 3)
        a4 == write_attr(a3, self.underline, ZERO + 4)
        a5 == write_attr(a4, self.blink, ZERO + 5)
        a6 == write_attr(a5, self.reverse /\ ~self.hidden, ZERO + 7)
    IN  write_attr(a6, self.hidden, ZERO + 7)

\* The seven attribute tests, in the order the code makes them.
write_prefix_attrs(self, st) ==
    LET a1 == write_attr(st, self.bold, ZERO + 1)
        a2 == write_attr(a1, self.dimmed, ZERO + 2)
        a3 == write_attr(a2, self.italic, ZERO + 3)
        a4 == write_attr(a3, self.underline, ZERO + 4)
        a5 == write_attr(a4, self.blink, ZERO + 5)
        a6 == write_attr(a5, self.reverse, ZERO + 6)
    IN  write_attr(a6, self.hidden, ZERO + 7)

\* The foreground step without `written_anything = true`.
write_prefix_fg_noflag(self, st) ==
    IF st.res = "Err" \/ self.foreground = None THEN st
    ELSE LET r1 == IF st.written_anything THEN write_char(st.f, SEMICOLON) ELSE Ok(st.f)
         IN  IF r1.res = "Err"
             THEN [st EXCEPT !.f = r1.f, !.res = "Err"]
             ELSE LET r2 == write_foreground_code(self.foreground, r1.f)
                  IN  [st EXCEPT !.f = r2.f, !.res = r2.res]

\* if let Some(fg) = self.foreground { ... }
write_prefix_fg(self, st) ==
    IF st.res = "Err" \/ self.foreground = None THEN st
    ELSE LET r1 == IF st.written_anything THEN write_char(st.f, SEMICOLON) ELSE Ok(st.f)
         IN  IF r1.res = "Err"
             THEN [st EXCEPT !.f = r1.f, !.res = "Err"]
             ELSE LET r2 == write_foreground_code(self.foreground, r1.f)
                  IN  [f |-> r2.f, written_anything |-> TRUE, res |-> r2.res]

\* if let Some(bg) = self.background { ... }
write_prefix_bg(self, st) ==
    IF st.res = "Err" \/ self.background = None THEN st
    ELSE LET r1 == IF st.written_anything THEN write_char(st.f, SEMICOLON) ELSE Ok(st.f)
         IN  IF r1.res = "Err"
             THEN [st EXCEPT !.f = r1.f, !.res = "Err"]
             ELSE LET r2 == write_background_code(self.background, r1.f)
                  IN  [st EXCEPT !.f = r2.f, !.res = r2.res]

\* write_prefix with the background block placed before the foreground block.
write_prefix_bg_first(self, fm) ==
    IF is_plain(self) THEN Ok(fm)
    ELSE LET r0 == write_fmt(fm, <<<<ESC, LBRACKET>>>>)
         IN  IF r0.res = "Err" THEN r0
             ELSE LET s0 == [f |-> r0.f, written_anything |-> FALSE, res |-> "Ok"]
                      a == write_prefix_attrs(self, s0)
                      b == write_prefix_bg(self, a)
                      \* the background block sets the flag here, as it must
                      b1 == IF b.res = "Ok" /\ self.background # None
                            THEN [b EXCEPT !.written_anything = TRUE] ELSE b
                      s3 == write_prefix_fg(self, b1)
                  IN  IF s3.res = "Err" THEN [f |-> s3.f, res |-> "Err"]
                      ELSE write_char(s3.f, LOWER_M)

write_prefix(self, fm) ==
    IF is_plain(self) THEN Ok(fm)
    ELSE LET r0 == write_fmt(fm, <<<<ESC, LBRACKET>>>>)
         IN  IF r0.res = "Err" THEN r0
             ELSE LET s0 == [f |-> r0.f, written_anything |-> FALSE, res |-> "Ok"]
                      s3 == write_prefix_bg(self,
                                write_prefix_fg(self, write_prefix_attrs(self, s0)))
                  IN  IF s3.res = "Err" THEN [f |-> s3.f, res |-> "Err"]
                      ELSE write_char(s3.f, LOWER_M)

\* write_suffix without its test for the plain Style.
write_suffix_always(self, fm) == write_fmt(fm, <<<<ESC, LBRACKET, ZERO, LOWER_M>>>>)

\* write_suffix writing "\x1b[m" for the reset.
write_suffix_short(self, fm) ==
    IF is_plain(self) THEN Ok(fm)
    ELSE write_fmt(fm, <<<<ESC, LBRACKET, LOWER_M>>>>)

write_suffix(self, fm) ==
    IF is_plain(self) THEN Ok(fm)
    ELSE write_fmt(fm, <<<<ESC, LBRACKET, ZERO, LOWER_M>>>>)

\* Display::fmt writing the reset whatever happened before it, and
\* returning the first error.
Display_fmt_always_reset(self, fm) ==
    LET p == write_prefix(self.style, fm)
        c == IF p.res = "Err" THEN p ELSE write_fmt(p.f, <<self.string>>)
        s == write_suffix(self.style, c.f)
    IN  IF c.res = "Err" THEN [f |-> s.f, res |-> "Err"] ELSE s

\* Display::fmt going on after a failed write of the text.
Display_fmt_content_unchecked(self, fm) ==
    LET p == write_prefix(self.style, fm)
    IN  IF p.res = "Err" THEN p
        ELSE write_suffix(self.style, write_fmt(p.f, <<self.string>>).f)

\* impl Display for StyledString.
Display_fmt(self, fm) ==
    LET p == write_prefix(self.style, fm)
    IN  IF p.res = "Err" THEN p
        ELSE LET c == write_fmt(p.f, <<self.string>>)
             IN  IF c.res = "Err" THEN c
                 ELSE write_suffix(self.style, c.f)

\* ToString::to_string: Display into a String, which never fails.
to_string(self) == Display_fmt(self, NewFormatter(0)).f.out

---------------------------------------------------------------------------
(* The screen-size query (screen/unix.rs, screen/windows.rs).              *)

OptNone == [some |-> FALSE]
OptSome(v) == [some |-> TRUE, v |-> v]

\* `x as u16`
AsU16(x) == x % U16_MOD

\* What the operating system may report.  Unix: whether standard output is
\* a terminal, whether TIOCGWINSZ succeeds (it does only on a terminal) and
\* the window size it stores.  Windows: whether GetConsoleScreenBufferInfo
\* succeeds and the window rectangle it stores.
UnixTerms ==
    {[platform |-> "unix", is_tty |-> t, ioctl_ok |-> k, ws_row |-> r, ws_col |-> c] :
        t \in BOOLEAN, k \in BOOLEAN, r \in 0..MaxDim, c \in 0..MaxDim}

WindowsTerms ==
    {[platform |-> "windows", ok |-> k, Left |-> l, Top |-> t, Right |-> r, Bottom |-> b] :
        k \in BOOLEAN, l \in 0..MaxDim, t \in 0..MaxDim, r \in 0..MaxDim, b \in 0..MaxDim}

Terms ==
    {t \in UnixTerms : t.ioctl_ok => t.is_tty}
        \cup {t \in WindowsTerms : t.Left <= t.Right /\ t.Top <= t.Bottom}

\* size() returning the rows first.
size_unix_rows_first(t) ==
    IF t.is_tty /\ t.ioctl_ok THEN OptSome(<<t.ws_row, t.ws_col>>) ELSE OptNone

\* unix.rs size(): Width first, Height second.
size_unix(t) ==
    IF ~t.is_tty THEN OptNone
    ELSE LET winsize == IF t.ioctl_ok
                        THEN [ws_row |-> t.ws_row, ws_col |-> t.ws_col]
                        ELSE [ws_row |-> 0, ws_col |-> 0]
         IN  IF t.ioctl_ok
             THEN OptSome(<<winsize.ws_col, winsize.ws_row>>)
             ELSE OptNone

\* windows.rs size(), reading its `hand` as the `handle` declared above it.
size_windows(t) ==
    IF t.ok
    THEN OptSome(<<AsU16(t.Right - t.Left + 1), AsU16(t.Bottom - t.Top + 1)>>)
    ELSE OptNone

size(t) == IF t.platform = "unix" THEN size_unix(t) ELSE size_windows(t)

width(t) ==
    LET sz == size(t)
    IN  IF sz.some THEN OptSome(sz.v[1]) ELSE OptNone

height(t) ==
    LET sz == size(t)
    IN  IF sz.some THEN OptSome(sz.v[2]) ELSE OptNone

---------------------------------------------------------------------------
(* The styling program: one expression that builds a Style (from          *)
(* Style::new() or from a Color), paints a text with it and renders the    *)
(* StyledString.                                                           *)

NoCall == [ty |-> "none", m |-> "none", c |-> None, arg |-> None]
IdleFormatter == NewFormatter(0)
IdleCode == [ground |-> "none", f |-> IdleFormatter, res |-> "none"]
IdleTerm == [platform |-> "none"]
IdleScreen == [q |-> "none", ret |-> OptNone]

StylingIdle ==
    /\ pc = "start" /\ style = Style_default /\ receiver = Style_default
    /\ call = NoCall /\ string = <<>> /\ f = IdleFormatter /\ result = "none"

CodeIdle == color = None /\ code = IdleCode

Init ==
    /\ StylingIdle
    /\ CodeIdle
    /\ term = IdleTerm /\ screen = IdleScreen

others == <<color, code, term, screen>>

\* Style::new()
StyleNew ==
    /\ pc = "start"
    /\ pc' = "build"
    /\ style' = Style_new
    /\ call' = [ty |-> "Style", m |-> "new", c |-> None, arg |-> None]
    /\ UNCHANGED <<receiver, string, f, result, others>>

\* c.normal()
ColorNormal ==
    /\ pc = "start"
    /\ \E c \in Colors :
        /\ style' = Color_normal(c)
        /\ call' = [ty |-> "Color", m |-> "normal", c |-> c, arg |-> None]
    /\ pc' = "build"
    /\ UNCHANGED <<receiver, string, f, result, others>>

\* c.on(b)
ColorOn ==
    /\ pc = "start"
    /\ \E c \in Colors, b \in Colors :
        /\ style' = Color_on(c, b)
        /\ call' = [ty |-> "Color", m |-> "on", c |-> c, arg |-> b]
    /\ pc' = "build"
    /\ UNCHANGED <<receiver, string, f, result, others>>

\* c.bold(), c.dimmed(), ..., c.hidden()
ColorAttr ==
    /\ pc = "start"
    /\ \E c \in Colors, i \in 1..Len(Attrs) :
        /\ style' = Color_attr(c, Attrs[i])
        /\ call' = [ty |-> "Color", m |-> Attrs[i], c |-> c, arg |-> None]
    /\ pc' = "build"
    /\ UNCHANGED <<receiver, string, f, result, others>>

\* style.foreground(c): &self is read, a new Style is returned.
StyleForeground ==
    /\ pc = "build"
    /\ \E c \in Colors :
        /\ style' = Style_foreground(style, c)
        /\ call' = [ty |-> "Style", m |-> "foreground", c |-> None, arg |-> c]
    /\ receiver' = style
    /\ UNCHANGED <<pc, string, f, result, others>>

\* style.background(c)
StyleBackground ==
    /\ pc = "build"
    /\ \E c \in Colors :
        /\ style' = Style_background(style, c)
        /\ call' = [ty |-> "Style", m |-> "background", c |-> None, arg |-> c]
    /\ receiver' = style
    /\ UNCHANGED <<pc, string, f, result, others>>

\* style.bold(), style.dimmed(), ..., style.hidden()
StyleAttr ==
    /\ pc = "build"
    /\ \E i \in 1..Len(Attrs) :
        /\ style' = Style_attr(style, Attrs[i])
        /\ call' = [ty |-> "Style", m |-> Attrs[i], c |-> None, arg |-> None]
    /\ receiver' = style
    /\ UNCHANGED <<pc, string, f, result, others>>

\* style.paint(text): the Style is moved into the StyledString.
StylePaint ==
    /\ pc = "build"
    /\ \E text \in Texts :
        LET ss == Style_paint(style, text)
        IN  style' = ss.style /\ string' = ss.string
    /\ pc' = "painted"
    /\ receiver' = style
    /\ call' = [ty |-> "Style", m |-> "paint", c |-> None, arg |-> None]
    /\ UNCHANGED <<f, result, others>>

\* c.paint(text)
ColorPaint ==
    /\ pc = "start"
    /\ \E c \in Colors, text \in Texts :
        LET ss == Color_paint(c, text)
        IN  /\ style' = ss.style /\ string' = ss.string
            /\ call' = [ty |-> "Color", m |-> "paint", c |-> c, arg |-> None]
    /\ pc' = "painted"
    /\ UNCHANGED <<receiver, f, result, others>>

\* StyledString::from(text)
FromText ==
    /\ pc = "start"
    /\ \E text \in Texts :
        LET ss == StyledString_from(text)
        IN  style' = ss.style /\ string' = ss.string
    /\ call' = [ty |-> "StyledString", m |-> "from", c |-> None, arg |-> None]
    /\ pc' = "painted"
    /\ UNCHANGED <<receiver, f, result, others>>

\* Display::fmt of the StyledString, into a destination that fails the
\* write call failAt, or none.
Fmt ==
    /\ pc = "painted"
    /\ \E failAt \in 0..MaxFailAt :
        LET r == Display_fmt([string |-> string, style |-> style], NewFormatter(failAt))
        IN  f' = r.f /\ result' = r.res
    /\ pc' = "rendered"
    /\ UNCHANGED <<style, receiver, call, string, others>>

Next ==
    \/ StyleNew \/ ColorNormal \/ ColorOn \/ ColorAttr
    \/ StyleForeground \/ StyleBackground \/ StyleAttr
    \/ StylePaint \/ ColorPaint \/ FromText
    \/ Fmt

Spec == Init /\ [][Next]_vars

---------------------------------------------------------------------------
(* The code-table program: one colour's foreground or background code,     *)
(* written into a destination that does not fail.                          *)

ForegroundCode ==
    /\ code.ground = "none"
    /\ \E c \in AllColors :
        LET r == write_foreground_code(c, NewFormatter(0))
        IN  color' = c /\ code' = [ground |-> "fg", f |-> r.f, res |-> r.res]
    /\ UNCHANGED <<pc, style, receiver, call, string, f, result, term, screen>>

BackgroundCode ==
    /\ code.ground = "none"
    /\ \E c \in AllColors :
        LET r == write_background_code(c, NewFormatter(0))
        IN  color' = c /\ code' = [ground |-> "bg", f |-> r.f, res |-> r.res]
    /\ UNCHANGED <<pc, style, receiver, call, string, f, result, term, screen>>

NextColor == ForegroundCode \/ BackgroundCode

SpecColor == Init /\ [][NextColor]_vars

---------------------------------------------------------------------------
(* The screen program: the terminal is in some state the operating system  *)
(* reports, and size(), width() or height() is called.                     *)

InitScreen ==
    /\ StylingIdle
    /\ CodeIdle
    /\ term \in Terms /\ screen = IdleScreen

QuerySize ==
    /\ screen' = [q |-> "size", ret |-> size(term)]
    /\ UNCHANGED <<pc, style, receiver, call, string, f, result, color, code, term>>

QueryWidth ==
    /\ screen' = [q |-> "width", ret |-> width(term)]
    /\ UNCHANGED <<pc, style, receiver, call, string, f, result, color, code, term>>

QueryHeight ==
    /\ screen' = [q |-> "height", ret |-> height(term)]
    /\ UNCHANGED <<pc, style, receiver, call, string, f, result, color, code, term>>

\* The window is resized between two queries.
Resize ==
    /\ \E t \in Terms : t.platform = term.platform /\ t # term /\ term' = t
    /\ screen' = IdleScreen
    /\ UNCHANGED <<pc, style, receiver, call, string, f, result, color, code>>

NextScreen == QuerySize \/ QueryWidth \/ QueryHeight \/ Resize

SpecScreen == InitScreen /\ [][NextScreen]_vars

---------------------------------------------------------------------------
(* The serialization program: some Style, with colour parameters that look *)
(* like attribute numbers (1..7) or like colour codes (30..48), is painted *)
(* on a text and turned into a String with to_string().                    *)

SerColors ==
    {Named("Black"),
     Fixed(1), Fixed(7), Fixed(38), Fixed(48),
     Rgb(5, 38, 48), Rgb(2, 30, 1), Rgb(48, 5, 40)}

SerStyles ==
    [foreground : SerColors \cup {None}, background : SerColors \cup {None},
     bold : BOOLEAN, dimmed : BOOLEAN, italic : BOOLEAN, underline : BOOLEAN,
     blink : BOOLEAN, reverse : BOOLEAN, hidden : BOOLEAN]

InitSer ==
    /\ pc = "painted"
    /\ \E s \in SerStyles, text \in Texts :
        LET ss == Style_paint(s, text)
        IN  style = ss.style /\ string = ss.string /\ receiver = s
    /\ call = [ty |-> "Style", m |-> "paint", c |-> None, arg |-> None]
    /\ f = IdleFormatter /\ result = "none"
    /\ CodeIdle
    /\ term = IdleTerm /\ screen = IdleScreen

\* styled.to_string(): Display::fmt into a String, which takes every write.
RenderToString ==
    /\ pc = "painted"
    /\ LET r == Display_fmt([string |-> string, style |-> style], NewFormatter(0))
       IN  f' = r.f /\ result' = r.res
    /\ pc' = "rendered"
    /\ UNCHANGED <<style, receiver, call, string, others>>

NextSer == RenderToString

SpecSer == InitSer /\ [][NextSer]_vars

---------------------------------------------------------------------------
(* Properties.                                                             *)

Reset == <<ESC, LBRACKET, ZERO, LOWER_M>>

Digits == ZERO..(ZERO + 9)

\* Display::fmt ran and returned Ok.
RenderedOk == pc = "rendered" /\ result = "Ok"

\* Of a rendered non-plain StyledString: what precedes the text and the
\* reset, and the code list between its "ESC[" and its "m".
PrefixOf(out, text) == SubSeq(out, 1, Len(out) - Len(Reset) - Len(text))
CodesOf(out, text) == SubSeq(out, 3, Len(out) - Len(Reset) - Len(text) - 1)

\* A code list read back: the numbers between its semicolons, -1 for an
\* empty place.
RECURSIVE ParseFrom(_, _, _, _)
ParseFrom(s, i, cur, acc) ==
    IF i > Len(s) THEN Append(acc, cur)
    ELSE IF s[i] = SEMICOLON THEN ParseFrom(s, i + 1, -1, Append(acc, cur))
    ELSE ParseFrom(s, i + 1, (IF cur = -1 THEN 0 ELSE cur * 10) + (s[i] - ZERO), acc)

ParseCodes(s) == ParseFrom(s, 1, -1, <<>>)

\* The numbers of a colour's code, base 30 (foreground) or 40 (background).
ColorNumbers(c, base) ==
    CASE c.tag = "None" -> <<>>
      [] c.tag = "Fixed" -> <<base + 8, 5, c.n>>
      [] c.tag = "Rgb" -> <<base + 8, 2, c.r, c.g, c.b>>
      [] OTHER -> <<base + NamedNumber[c.tag]>>

\* The numbers 1..7 of the attributes that are set, ascending.
AttrNumbers(s) == SelectSeq(<<1, 2, 3, 4, 5, 6, 7>>, LAMBDA i : s[Attrs[i]])

CanonicalNumbers(s) ==
    AttrNumbers(s) \o ColorNumbers(s.foreground, 30) \o ColorNumbers(s.background, 40)

\* C1: A StyledString whose Style is the canonical default renders to
\* exactly its text: the one write made is the text's, and a successful
\* rendering delivers the text byte for byte.
C1_PlainIsText ==
    (pc = "rendered" /\ style = Style_default) =>
        /\ f.calls = 1
        /\ result = "Ok" => f.out = string
        /\ result = "Err" => f.out = <<>>

C1_Witness ==
    /\ RenderedOk /\ style = Style_default
    /\ Len(string) > 0 /\ string[1] = ESC /\ f.out = string

\* C2: A non-plain StyledString renders to ESC "[" codes "m", then the
\* text verbatim, then the reset ESC "[0m": the codes hold digits and
\* semicolons only, so the prefix and the reset each appear once; a plain
\* one renders neither.
C2_PrefixTextSuffix ==
    RenderedOk =>
        IF style = Style_default THEN Len(f.out) = Len(string)
        ELSE LET n == Len(f.out)
                 k == Len(string)
                 P == PrefixOf(f.out, string)
             IN  /\ n >= k + Len(Reset) + 4
                 /\ SubSeq(f.out, n - Len(Reset) + 1, n) = Reset
                 /\ SubSeq(f.out, n - Len(Reset) - k + 1, n - Len(Reset)) = string
                 /\ P[1] = ESC /\ P[2] = LBRACKET /\ P[Len(P)] = LOWER_M
                 /\ \A i \in 3..(Len(P) - 1) : P[i] \in Digits \cup {SEMICOLON}

C2_Witness ==
    /\ RenderedOk /\ style # Style_default
    /\ string = <<ESC>>
    /\ f.out = <<ESC, LBRACKET, ZERO + 1, LOWER_M, ESC>> \o Reset

\* C3: The code list of a non-plain Style is, whatever chain of calls
\* built it, the numbers of its set attributes ascending (bold 1 ... hidden
\* 7), then the foreground code, then the background code.
C3_CanonicalOrder ==
    (RenderedOk /\ style # Style_default) =>
        ParseCodes(CodesOf(f.out, string)) = CanonicalNumbers(style)

C3_Witness ==
    /\ RenderedOk
    /\ style.hidden /\ style.bold /\ ~style.dimmed /\ style.blink
    /\ style.foreground = Fixed(5) /\ style.background = Named("Green")
    /\ ParseCodes(CodesOf(f.out, string)) = <<1, 5, 7, 38, 5, 5, 42>>

\* The number of semicolons inside a colour's own code.
InnerSeparators(c) ==
    CASE c.tag = "Fixed" -> 2
      [] c.tag = "Rgb" -> 4
      [] OTHER -> 0

\* The number of components of a Style's code list.
Components(s) ==
    Len(AttrNumbers(s)) + (IF s.foreground # None THEN 1 ELSE 0)
                        + (IF s.background # None THEN 1 ELSE 0)

CountOf(s, b) == Cardinality({i \in 1..Len(s) : s[i] = b})

\* C4: In the prefix of a non-plain Style no semicolon follows "ESC["
\* directly, none precedes the final "m", no two are adjacent, and the k
\* components are joined by exactly k - 1 separators.
C4_Separators ==
    (RenderedOk /\ style # Style_default) =>
        LET I == CodesOf(f.out, string)
        IN  /\ Len(I) > 0
            /\ I[1] # SEMICOLON
            /\ I[Len(I)] # SEMICOLON
            /\ \A i \in 1..(Len(I) - 1) : ~(I[i] = SEMICOLON /\ I[i + 1] = SEMICOLON)
            /\ CountOf(I, SEMICOLON) =
                    (Components(style) - 1) + InnerSeparators(style.foreground)
                                            + InnerSeparators(style.background)

C4_Witness ==
    /\ RenderedOk
    /\ Len(AttrNumbers(style)) = 7
    /\ style.foreground = Rgb(0, 48, 255) /\ style.background = Fixed(5)
    /\ CountOf(CodesOf(f.out, string), SEMICOLON) = 14

\* The number of decimal digits of a byte value.
DigitCount(v) == IF v < 10 THEN 1 ELSE IF v < 100 THEN 2 ELSE 3

RECURSIVE SumDigitCounts(_)
SumDigitCounts(ns) ==
    IF ns = <<>> THEN 0 ELSE DigitCount(Head(ns)) + SumDigitCounts(Tail(ns))

\* bytes is the numbers ns in decimal, without leading zeros, joined by
\* single semicolons.
IsDecimalList(bytes, ns) ==
    /\ \A i \in 1..Len(bytes) : bytes[i] \in Digits \cup {SEMICOLON}
    /\ ParseCodes(bytes) = ns
    /\ Len(bytes) = SumDigitCounts(ns) + Len(ns) - 1

\* C5: The foreground code of a colour is 30..37 for Black..White,
\* "38;5;n" for Fixed(n) and "38;2;r;g;b" for Rgb(r, g, b), the numbers in
\* decimal; its background code is the same with 40..47 and 48.
C5_ColorCodes ==
    /\ code.ground = "fg" =>
            code.res = "Ok" /\ IsDecimalList(code.f.out, ColorNumbers(color, 30))
    /\ code.ground = "bg" =>
            code.res = "Ok" /\ IsDecimalList(code.f.out, ColorNumbers(color, 40))

C5_Witness ==
    /\ code.ground = "bg" /\ color = Rgb(100, 9, 255)
    /\ code.f.out = <<ZERO + 4, ZERO + 8, SEMICOLON, ZERO + 2, SEMICOLON,
                      ZERO + 1, ZERO, ZERO, SEMICOLON, ZERO + 9, SEMICOLON,
                      ZERO + 2, ZERO + 5, ZERO + 5>>

\* The last step was a builder method of Style.
BuilderCalled == pc = "build" /\ call.ty = "Style" /\ call.m # "new"

\* What the builder method named in the call c overrides, and with what.
Overridden(c) == IF c.m \in {"foreground", "background"} THEN c.arg ELSE TRUE

\* C6: A builder method leaves its receiver as it was and returns a
\* Style equal to the receiver except for the one field the method names:
\* the colour given, or true for an attribute.
C6_BuilderPure ==
    [][(pc = "build" /\ pc' = "build") =>
            /\ receiver' = style
            /\ style' = [style EXCEPT ![call'.m] = Overridden(call')]]_vars

C6_Witness ==
    /\ BuilderCalled /\ call.m = "bold"
    /\ receiver.dimmed /\ ~receiver.bold /\ receiver.foreground = Fixed(5)
    /\ style = [receiver EXCEPT !.bold = TRUE]

\* C7: Each convenience method of a Color gives the Style of the
\* builder chain from a fresh Style: normal() is new().foreground(c), on(b)
\* adds background(b), an attribute method adds that one attribute, and
\* paint(text) paints with normal(); what is rendered is the same.
C7_ColorIsChain ==
    call.ty = "Color" =>
        LET fg == Style_foreground(Style_new, call.c)
        IN  /\ call.m \in {"normal", "paint"} => style = fg
            /\ call.m = "on" => style = Style_background(fg, call.arg)
            /\ call.m \notin {"normal", "paint", "on"} =>
                    /\ style = Style_attr(fg, call.m)
                    /\ style.foreground = call.c /\ style.background = None
                    /\ \A i \in 1..Len(Attrs) : style[Attrs[i]] <=> (Attrs[i] = call.m)
            /\ pc = "rendered" =>
                    LET r == Display_fmt(Style_paint(fg, string), NewFormatter(f.failAt))
                    IN  f = r.f /\ result = r.res

C7_Witness ==
    /\ pc = "build" /\ call.ty = "Color" /\ call.m = "on"
    /\ call.c = Fixed(5) /\ call.arg = Named("Green")
    /\ style.foreground = Fixed(5) /\ style.background = Named("Green")

\* C8: Nothing is unset along a chain: an attribute that is true
\* stays true, a colour that is set stays set, and a non-plain Style does
\* not become plain.
C8_NoUnset ==
    [][/\ \A i \in 1..Len(Attrs) : style[Attrs[i]] => style'[Attrs[i]]
       /\ style.foreground # None => style'.foreground # None
       /\ style.background # None => style'.background # None
       /\ style # Style_default => style' # Style_default]_vars

C8_Witness ==
    /\ BuilderCalled /\ call.m = "background"
    /\ receiver.bold /\ receiver.hidden /\ receiver.foreground = Named("Green")
    /\ receiver.background = Fixed(5) /\ style.background = Rgb(0, 48, 255)
    /\ style.bold /\ style.hidden /\ style.foreground = Named("Green")

\* C9: When a write to the destination fails, in the prefix, the text
\* or the suffix, Display::fmt returns the error; it returns Ok only when
\* no write failed.
C9_ErrorPropagates ==
    pc = "rendered" => (f.failed <=> result = "Err")

\* The write of the reset is the one that failed.
C9_Witness ==
    /\ pc = "rendered" /\ style # Style_default /\ result = "Err" /\ f.failed
    /\ string = <<SEMICOLON>>
    /\ f.out = <<ESC, LBRACKET, ZERO + 7, LOWER_M, SEMICOLON>>

C11_ZeroIsNone ==
    /\ screen.q = "size" => screen.ret # OptSome(<<0, 0>>)
    /\ screen.q \in {"width", "height"} => screen.ret # OptSome(0)

\* C12: Applying an attribute setter to its own result gives that result
\* again: f(f(s)) = f(s) for the receiver s of every attribute setter f,
\* and a setter called on a Style that has the attribute returns it as is.
C12_SetterIdempotent ==
    (BuilderCalled /\ call.m \notin {"foreground", "background"}) =>
        /\ Style_attr(style, call.m) = style
        /\ receiver[call.m] => style = receiver

C12_Witness ==
    /\ BuilderCalled /\ call.m = "italic"
    /\ receiver.italic /\ receiver.hidden /\ receiver.background = Fixed(5)
    /\ style = receiver

\* C13: A StyledString converted from a text has the canonical plain
\* Style, equals Style::new().paint(text), and renders to the text alone.
C13_FromIsPlain ==
    (call.ty = "StyledString" /\ call.m = "from") =>
        /\ style.foreground = None /\ style.background = None
        /\ \A i \in 1..Len(Attrs) : ~style[Attrs[i]]
        /\ [string |-> string, style |-> style] = Style_paint(Style_new, string)
        /\ RenderedOk => f.out = string

C13_Witness ==
    /\ call.ty = "StyledString" /\ call.m = "from"
    /\ RenderedOk /\ string = <<ESC>> /\ f.out = <<ESC>>

\* Reading a code list back into a Style: the leading numbers below 30
\* are attributes, then comes a foreground code (30..38), then a
\* background code (40..48); 38 and 48 take 5 and one number, or 2 and three.
LeadingAttrs(t) == Cardinality({i \in 1..Len(t) : \A j \in 1..i : t[j] < 30})

ColorLen(t, i, base) ==
    IF i > Len(t) \/ t[i] \notin base..(base + 8) THEN 0
    ELSE IF t[i] < base + 8 THEN 1
    ELSE IF t[i + 1] = 5 THEN 3 ELSE 5

ColorAt(t, i, base) ==
    LET n == ColorLen(t, i, base)
    IN  CASE n = 0 -> None
          [] n = 1 -> Named(NamedTags[t[i] - base + 1])
          [] n = 3 -> Fixed(t[i + 2])
          [] n = 5 -> Rgb(t[i + 2], t[i + 3], t[i + 4])

DecodeCodes(t) ==
    LET na == LeadingAttrs(t)
        has(k) == \E j \in 1..na : t[j] = k
        fl == ColorLen(t, na + 1, 30)
    IN  [foreground |-> ColorAt(t, na + 1, 30),
         background |-> ColorAt(t, na + 1 + fl, 40),
         bold |-> has(1), dimmed |-> has(2), italic |-> has(3), underline |-> has(4),
         blink |-> has(5), reverse |-> has(6), hidden |-> has(7)]

\* The Style read back from what a text was rendered to.
DecodeOut(out, text) ==
    IF Len(out) = Len(text) THEN Style_default
    ELSE DecodeCodes(ParseCodes(CodesOf(out, text)))

\* The Styles that differ from s in one field.
Variants(s) ==
    {[s EXCEPT ![Attrs[i]] = ~@] : i \in 1..Len(Attrs)}
        \cup {[s EXCEPT !.foreground = c] : c \in (SerColors \cup {None}) \ {s.foreground}}
        \cup {[s EXCEPT !.background = c] : c \in (SerColors \cup {None}) \ {s.background}}

\* C14: The rendered bytes determine the Style: reading them back gives
\* the Style's fields, so two different Styles never render a text to the
\* same bytes; in particular no Style differing in one field does.
C14_Injective ==
    RenderedOk =>
        /\ DecodeOut(f.out, string) = style
        /\ \A t \in Variants(style) : to_string(Style_paint(t, string)) # f.out

C14_Witness ==
    /\ RenderedOk
    /\ style.blink /\ style.hidden /\ ~style.reverse
    /\ style.foreground = Fixed(7) /\ style.background = Rgb(48, 5, 40)
    /\ ParseCodes(CodesOf(f.out, string)) = <<5, 7, 38, 5, 7, 48, 2, 48, 5, 40>>
    /\ DecodeOut(f.out, string) = style

\* What the StyledString renders to when no write fails.
FullOutput == to_string([string |-> string, style |-> style])

IsPrefix(a, b) == Len(a) <= Len(b) /\ a = SubSeq(b, 1, Len(a))

\* C15: Rendering stops at the first failed write: no write is made after
\* it, so the failed call is the last one, what was delivered is a prefix
\* of the full output, and the reset of a non-plain Style is missing from it.
C15_StopsAtFirstError ==
    pc = "rendered" =>
        /\ ~f.late
        /\ IsPrefix(f.out, FullOutput)
        /\ f.failed =>
            /\ f.calls = f.failAt
            /\ style # Style_default => Len(f.out) <= Len(FullOutput) - Len(Reset)
        /\ ~f.failed => f.out = FullOutput

\* The write of the separator after the first attribute failed.
C15_Witness ==
    /\ pc = "rendered" /\ result = "Err" /\ f.failed
    /\ style.bold /\ style.dimmed /\ style.foreground = Fixed(5)
    /\ string = <<ESC>>
    /\ f.failAt = 3 /\ f.calls = 3
    /\ f.out = <<ESC, LBRACKET, ZERO + 1>>

============================================================================
